---- MODULE Spec2Model ----
(***************************************************************************)
(* Sleeping-barber simulation engine of src/src/pages/Index.tsx (the first *)
(* Index component, lines 57-807).                                         *)
(*                                                                         *)
(* The component keeps its engine state in React state variables.  A       *)
(* handler reads the values of the render it was created in and enqueues   *)
(* updates: setX(v) replaces the pending value, setX(prev => f(prev)) is   *)
(* applied to the pending value.  All updates of one handler are applied   *)
(* together when the handler returns, so a handler called from another     *)
(* handler (addRandomCustomer from processTimeStep) still reads the values *)
(* of the render, not the pending ones.  Each action below is one handler  *)
(* run against the committed state, with its updates applied in order.     *)
(*                                                                         *)
(* Spec holds the engine commands.  Six further specifications share its   *)
(* actions and add what one group of properties needs: SpecInvalidDelta a  *)
(* negative frame delta, SpecCallback the progress bar's completion        *)
(* callback, SpecResize requests outside the ranges of the barber and      *)
(* chair controls (with the callback), SpecQueue a fourth customer,        *)
(* SpecServiceTime the service time slider together with the callback,     *)
(* SpecLive weak fairness of the time step, for the progress properties.   *)
(*                                                                         *)
(* Times are integers (seconds); frame deltas are whole seconds in ms.     *)
(* Sequences are 1-based: the barber at array index i of the source is at  *)
(* position i+1 here, so servedBy (index + 1) is a position.               *)
(***************************************************************************)
EXTENDS Integers, Sequences, FiniteSets, TLC

\* ---------------------------------------------------------------- bounds
MaxCustomers == 3
MaxTime == 20
\* how far below 0 a negative frame delta may take the clock
MaxRewind == 10

\* ------------------------------------------------------- program constants
WAITING == "waiting"
GETTING_HAIRCUT == "getting_haircut"
SERVED == "served"
TURNED_AWAY == "turned_away"
SLEEPING == "sleeping"
WORKING == "working"

\* undefined / null of an optional field
None == -1

MinBarbers == 1
MaxBarbers == 5
MinChairs == 1
MaxChairs == 10
InitNumBarbers == 1
InitNumChairs == 3
InitServiceTime == 10
InitArrivalRate == 3
InitSimulationSpeed == 1

\* ------------------------------------------------------------ input sets
BarberInputs == {0, 2}
ChairInputs == {0, 2}
ServiceTimeInputs == {10, 20}
ArrivalRateInputs == {3}
SpeedInputs == {1, 2}
FrameDeltas == {10000}

VARIABLES numBarbers, numChairs, serviceTime, arrivalRate, simulationSpeed,
          isRunning, isPaused, currentTime, nextCustomerId, barbers,
          waitingCustomers, currentCustomers, servedCustomers,
          turnedAwayCustomers, deltaSum, lastOp

params == <<numBarbers, numChairs, serviceTime, arrivalRate, simulationSpeed>>
lists == <<waitingCustomers, currentCustomers, servedCustomers, turnedAwayCustomers>>
vars == <<numBarbers, numChairs, serviceTime, arrivalRate, simulationSpeed,
          isRunning, isPaused, currentTime, nextCustomerId, barbers,
          waitingCustomers, currentCustomers, servedCustomers,
          turnedAwayCustomers, deltaSum, lastOp>>

\* ------------------------------------------------------------- helpers
Ids(s) == {s[i].id : i \in 1..Len(s)}

Min(S) == CHOOSE x \in S : \A y \in S : x <= y

SleepingPositions(bs) == {i \in 1..Len(bs) : bs[i].state = SLEEPING}

\* history record of the last command: its name, its argument and outcome,
\* the number k of services it completed (for SetBarberCount, of barbers it
\* removed), and the queue length q (for SetBarberCount, the numBarbers) and
\* the number s of sleeping barbers it read; for a reset, arg is the number of
\* customers and q the size of the pool it discarded
Op(name, arg, outcome, k, crashed, q, s) ==
    [op |-> name, arg |-> arg, outcome |-> outcome, k |-> k,
     crashed |-> crashed, q |-> q, s |-> s]

Plain(name, arg) == Op(name, arg, "none", 0, FALSE, 0, 0)

\* --------------------------------------------------------------- records
NewBarber(i) ==
    [id |-> i, state |-> SLEEPING, servingCustomerId |-> None,
     totalCustomersServed |-> 0, currentServiceStartTime |-> None,
     serviceEndTime |-> None]

\* mutant: a single barber whatever the configured count
InitialBarbers_Single(n) == [i \in 1..1 |-> NewBarber(i)]

\* Array.from({ length: numBarbers }).map((_, index) => ({ id: index + 1, ... }))
InitialBarbers(n) == [i \in 1..n |-> NewBarber(i)]

Max(S) == CHOOSE x \in S : \A y \in S : x >= y

\* mutant: the last sleeping barber instead of the first
SleepingBarberIndex_Last(bs) ==
    IF SleepingPositions(bs) = {} THEN 0 ELSE Max(SleepingPositions(bs))

\* barbers.findIndex(b => b.state === SLEEPING), 0 when there is none
SleepingBarberIndex(bs) ==
    IF SleepingPositions(bs) = {} THEN 0 ELSE Min(SleepingPositions(bs))

\* mutant: the capacity is the initial one, whatever numChairs is now
HasFreeChair_Initial(len, chairs) == len < InitNumChairs

\* mutant: a full queue still accepts
HasFreeChair_Inclusive(len, chairs) == len <= chairs

\* waitingCustomers.length < numChairs
HasFreeChair(len, chairs) == len < chairs

Reindex(q) == [i \in 1..Len(q) |-> [q[i] EXCEPT !.waitingPosition = i - 1]]

\* mutant: every customer served at once is given id 1
ServedNowCustomer_ReusedId(nextId, time, svc, i) ==
    [id |-> 1, state |-> GETTING_HAIRCUT, timeArrived |-> time,
     timeServed |-> time, timeLeft |-> None, servedBy |-> i,
     waitingPosition |-> None, serviceEndTime |-> time + svc]

\* mutant: the service always lasts the initial service time
ServedNowCustomer_InitialDuration(nextId, time, svc, i) ==
    [id |-> nextId, state |-> GETTING_HAIRCUT, timeArrived |-> time,
     timeServed |-> time, timeLeft |-> None, servedBy |-> i,
     waitingPosition |-> None, serviceEndTime |-> time + InitServiceTime]

\* the three customer records addCustomerWithName builds
ServedNowCustomer(nextId, time, svc, i) ==
    [id |-> nextId, state |-> GETTING_HAIRCUT, timeArrived |-> time,
     timeServed |-> time, timeLeft |-> None, servedBy |-> i,
     waitingPosition |-> None, serviceEndTime |-> time + svc]

\* mutant: one-based waiting position
WaitingCustomer_OneBased(nextId, time, wlen) ==
    [id |-> nextId, state |-> WAITING, timeArrived |-> time,
     timeServed |-> None, timeLeft |-> None, servedBy |-> None,
     waitingPosition |-> wlen + 1, serviceEndTime |-> None]

WaitingCustomer(nextId, time, wlen) ==
    [id |-> nextId, state |-> WAITING, timeArrived |-> time,
     timeServed |-> None, timeLeft |-> None, servedBy |-> None,
     waitingPosition |-> wlen, serviceEndTime |-> None]

\* mutant: no departure time recorded
TurnedAwayCustomer_NoDeparture(nextId, time) ==
    [id |-> nextId, state |-> TURNED_AWAY, timeArrived |-> time,
     timeServed |-> None, timeLeft |-> None, servedBy |-> None,
     waitingPosition |-> None, serviceEndTime |-> None]

TurnedAwayCustomer(nextId, time) ==
    [id |-> nextId, state |-> TURNED_AWAY, timeArrived |-> time,
     timeServed |-> None, timeLeft |-> time, servedBy |-> None,
     waitingPosition |-> None, serviceEndTime |-> None]

\* addCustomerWithName, as the updates it enqueues from the values it reads
addCustomerWithName(bs, wlen, chairs, time, svc, nextId) ==
    LET i == SleepingBarberIndex(bs) IN
    IF i # 0
    THEN [outcome |-> "assigned",
          barbers |-> [bs EXCEPT ![i] =
                         [@ EXCEPT !.state = WORKING,
                                   !.servingCustomerId = nextId,
                                   !.currentServiceStartTime = time,
                                   !.serviceEndTime = time + svc]],
          customer |-> ServedNowCustomer(nextId, time, svc, i)]
    ELSE IF HasFreeChair(wlen, chairs)
    THEN [outcome |-> "queued", barbers |-> bs,
          customer |-> WaitingCustomer(nextId, time, wlen)]
    ELSE [outcome |-> "turned_away", barbers |-> bs,
          customer |-> TurnedAwayCustomer(nextId, time)]

\* ------------------------------------------------------------------ Init
Init ==
    /\ numBarbers = InitNumBarbers
    /\ numChairs = InitNumChairs
    /\ serviceTime = InitServiceTime
    /\ arrivalRate = InitArrivalRate
    /\ simulationSpeed = InitSimulationSpeed
    /\ isRunning = FALSE
    /\ isPaused = FALSE
    /\ currentTime = 0
    /\ nextCustomerId = 1
    /\ barbers = InitialBarbers(InitNumBarbers)
    /\ waitingCustomers = <<>>
    /\ currentCustomers = <<>>
    /\ servedCustomers = <<>>
    /\ turnedAwayCustomers = <<>>
    /\ deltaSum = 0
    /\ lastOp = Plain("Initialize", 0)

\* handleBooking -> addCustomerWithName(name), for customer ids up to maxId
handleBooking(maxId) ==
    /\ nextCustomerId <= maxId
    /\ LET r == addCustomerWithName(barbers, Len(waitingCustomers), numChairs,
                                    currentTime, serviceTime, nextCustomerId)
       IN /\ barbers' = r.barbers
          /\ currentCustomers' = IF r.outcome = "assigned"
                                 THEN Append(currentCustomers, r.customer)
                                 ELSE currentCustomers
          /\ waitingCustomers' = IF r.outcome = "queued"
                                 THEN Append(waitingCustomers, r.customer)
                                 ELSE waitingCustomers
          /\ turnedAwayCustomers' = IF r.outcome = "turned_away"
                                    THEN Append(turnedAwayCustomers, r.customer)
                                    ELSE turnedAwayCustomers
          /\ isRunning' = IF r.outcome = "turned_away" THEN isRunning ELSE TRUE
          /\ isPaused' = IF r.outcome # "turned_away" /\ ~isRunning
                         THEN FALSE ELSE isPaused
          /\ lastOp' = Op("AddCustomer", 0, r.outcome, 0, FALSE,
                       Len(waitingCustomers),
                       Cardinality(SleepingPositions(barbers)))
    /\ nextCustomerId' = nextCustomerId + 1
    /\ UNCHANGED <<params, currentTime, servedCustomers, deltaSum>>

AddCustomer == handleBooking(MaxCustomers)

\* mutant: a pause does not stop the time steps
IsIdle_IgnoresPause(running, paused) == ~running

\* if (!isRunning || isPaused) return;
IsIdle(running, paused) == ~running \/ paused

\* early return of animationLoop / processTimeStep while stopped or paused
AdvanceIdle ==
    /\ IsIdle(isRunning, isPaused)
    /\ lastOp' = Plain("AdvanceIdle", 0)
    /\ UNCHANGED <<params, isRunning, isPaused, currentTime, nextCustomerId,
                   barbers, lists, deltaSum>>

\* animationLoop: timeStep = (deltaTime / 1000) * simulationSpeed
TimeStep(deltaTime, speed) == (deltaTime \div 1000) * speed

\* mutant: the step replaces the clock instead of advancing it
NewTime_Overwrite(time, timeStep) == timeStep

\* const newTime = currentTime + timeStep
NewTime(time, timeStep) == time + timeStep

\* Math.random() < (arrivalRate / 60) * timeStep, Math.random() in [0,1):
\* never when the product is 0, always when it is at least 1, and decided by
\* the draw in between
Arrives(rnd, rate, timeStep) ==
    \/ rate * timeStep >= 60
    \/ rnd /\ rate * timeStep > 0

Truthy(x) == x # None /\ x # 0

IsFinished(newTime, endTime) == newTime >= endTime

DepartureTime(c, newTime) == c.serviceEndTime

\* mutant: the customer taken from the queue is its last one
NextWaiting_Last(wq) == wq[Len(wq)]

\* waitingCustomers[0] and waitingCustomers.slice(1).map(reindex), both read
\* from the render's waitingCustomers at every completion
NextWaiting(wq) == wq[1]

NewWaiting(wq) == Reindex(Tail(wq))

\* mutant: the barber that goes to sleep keeps the times of its last service
SleepingBarber_KeepsTimes(b) ==
    [b EXCEPT !.state = SLEEPING, !.servingCustomerId = None]

\* { ...updatedBarbers[i], state: SLEEPING, servingCustomerId: null,
\*   currentServiceStartTime: undefined, serviceEndTime: undefined }
SleepingBarber(b) ==
    [b EXCEPT !.state = SLEEPING, !.servingCustomerId = None,
              !.currentServiceStartTime = None, !.serviceEndTime = None]

\* body of the forEach callback for one finished customer c of barber
\* position b (lines 620-703)
CompleteService(acc, c, b, wq, newTime, svc) ==
    LET fin == [c EXCEPT !.state = SERVED, !.timeLeft = DepartureTime(c, newTime)]
        bs1 == [acc.barbers EXCEPT ![b] =
                  [@ EXCEPT !.totalCustomersServed = @ + 1,
                            !.servingCustomerId = None]]
    IN IF Len(wq) > 0
       THEN LET next == NextWaiting(wq)
                upd == [next EXCEPT !.state = GETTING_HAIRCUT,
                                    !.timeServed = newTime,
                                    !.servedBy = b,
                                    !.serviceEndTime = newTime + svc,
                                    !.waitingPosition = None]
            IN [acc EXCEPT
                  !.finished = Append(@, fin),
                  !.toRemove = @ \cup {c.id},
                  !.barbers = [bs1 EXCEPT ![b] =
                                 [@ EXCEPT !.servingCustomerId = next.id,
                                           !.currentServiceStartTime = newTime,
                                           !.serviceEndTime = newTime + svc,
                                           !.state = WORKING]],
                  !.pushed = Append(@, upd),
                  !.waitingSet = TRUE]
       ELSE [acc EXCEPT
               !.finished = Append(@, fin),
               !.toRemove = @ \cup {c.id},
               !.barbers = [bs1 EXCEPT ![b] = SleepingBarber(@)]]

\* currentCustomers.forEach(...) of processTimeStep.  updatedBarbers[barberId]
\* is undefined when servedBy - 1 is past the end of the array, and reading
\* its totalCustomersServed throws: the loop and the handler end there.
RECURSIVE ForEachCustomer(_, _, _, _, _, _)
ForEachCustomer(cs, i, acc, wq, newTime, svc) ==
    IF i > Len(cs) \/ acc.crashed THEN acc
    ELSE LET c == cs[i] IN
         IF c.state = GETTING_HAIRCUT /\ Truthy(c.serviceEndTime)
            /\ IsFinished(newTime, c.serviceEndTime)
         THEN IF c.servedBy > Len(acc.barbers)
              THEN [acc EXCEPT !.crashed = TRUE]
              ELSE ForEachCustomer(cs, i + 1,
                     CompleteService(acc, c, c.servedBy, wq, newTime, svc),
                     wq, newTime, svc)
         ELSE ForEachCustomer(cs, i + 1, acc, wq, newTime, svc)

StepResult(bs, cs, wq, newTime, svc) ==
    ForEachCustomer(cs, 1,
        [barbers |-> bs, finished |-> <<>>, pushed |-> <<>>, toRemove |-> {},
         waitingSet |-> FALSE, crashed |-> FALSE],
        wq, newTime, svc)

\* updatedCurrentCustomers.filter(c => !customersToRemove.includes(c.id))
RemainingCustomers(cs, acc) ==
    LET keep(c) == c.id \notin acc.toRemove
    IN SelectSeq(cs \o acc.pushed, keep)

\* mutant: the finished customers are put in front of the earlier ones
AppendServed_InFront(prev, finishedCustomers) == finishedCustomers \o prev

\* setServedCustomers(prev => [...prev, ...finishedCustomers])
AppendServed(prev, finishedCustomers) == prev \o finishedCustomers

\* animationLoop -> processTimeStep(timeStep) -> addRandomCustomer, for frame
\* deltas (ms) drawn from deltas and customer ids up to maxId
animationLoop(deltas, maxId) ==
    /\ ~IsIdle(isRunning, isPaused)
    /\ \E deltaTime \in deltas, rnd \in BOOLEAN :
         LET timeStep == TimeStep(deltaTime, simulationSpeed)
             newTime == NewTime(currentTime, timeStep)
             acc == StepResult(barbers, currentCustomers, waitingCustomers,
                               newTime, serviceTime)
             arrive == ~acc.crashed /\ Arrives(rnd, arrivalRate, timeStep)
             r == addCustomerWithName(barbers, Len(waitingCustomers), numChairs,
                                      currentTime, serviceTime, nextCustomerId)
             stepWaiting == IF acc.waitingSet THEN NewWaiting(waitingCustomers)
                            ELSE waitingCustomers
             stepCurrent == RemainingCustomers(currentCustomers, acc)
         IN /\ newTime <= MaxTime
            /\ newTime >= 0 - MaxRewind
            /\ arrive => nextCustomerId <= maxId
            /\ currentTime' = newTime
            /\ deltaSum' = deltaSum + timeStep
            /\ waitingCustomers' =
                 IF arrive /\ r.outcome = "queued"
                 THEN Append(stepWaiting, r.customer) ELSE stepWaiting
            /\ IF acc.crashed
               THEN UNCHANGED <<barbers, currentCustomers, servedCustomers>>
               ELSE /\ barbers' = IF arrive /\ r.outcome = "assigned"
                                  THEN r.barbers ELSE acc.barbers
                    /\ currentCustomers' =
                         IF arrive /\ r.outcome = "assigned"
                         THEN Append(stepCurrent, r.customer) ELSE stepCurrent
                    /\ servedCustomers' =
                         AppendServed(servedCustomers, acc.finished)
            /\ turnedAwayCustomers' =
                 IF arrive /\ r.outcome = "turned_away"
                 THEN Append(turnedAwayCustomers, r.customer)
                 ELSE turnedAwayCustomers
            /\ nextCustomerId' = IF arrive THEN nextCustomerId + 1
                                 ELSE nextCustomerId
            /\ lastOp' = Op("Advance", timeStep,
                            IF arrive THEN r.outcome ELSE "none",
                            Len(acc.finished), acc.crashed,
                            Len(waitingCustomers),
                            Cardinality(SleepingPositions(barbers)))
    /\ UNCHANGED <<params, isRunning, isPaused>>

Advance == animationLoop(FrameDeltas, MaxCustomers)

\* initializeSimulation, called by resetSimulation
Reset ==
    /\ isRunning' = FALSE
    /\ isPaused' = FALSE
    /\ barbers' = InitialBarbers(numBarbers)
    /\ waitingCustomers' = <<>>
    /\ currentCustomers' = <<>>
    /\ servedCustomers' = <<>>
    /\ turnedAwayCustomers' = <<>>
    /\ currentTime' = 0
    /\ nextCustomerId' = 1
    /\ deltaSum' = 0
    /\ lastOp' = Op("Initialize", nextCustomerId - 1, "none", 0, FALSE,
                    Len(barbers), 0)
    /\ UNCHANGED params

\* togglePauseSimulation; its button is rendered while running and not paused
TogglePause ==
    /\ isRunning /\ ~isPaused
    /\ isPaused' = ~isPaused
    /\ lastOp' = Plain("TogglePause", 0)
    /\ UNCHANGED <<params, isRunning, currentTime, nextCustomerId, barbers,
                   lists, deltaSum>>

RECURSIVE SortedSeq(_)
SortedSeq(S) ==
    IF S = {} THEN <<>> ELSE <<Min(S)>> \o SortedSeq(S \ {Min(S)})

\* assignCustomersToBarbers: every sleeping barber, in index order, is given
\* waitingCustomers[0] of the render
assignCustomersToBarbers(bs, wq, time, svc) ==
    LET sleepingBarberIndices == SortedSeq(SleepingPositions(bs))
        nextCustomer == wq[1]
        keep(c) == c.id # nextCustomer.id
    IN [barbers |->
          [i \in 1..Len(bs) |->
             IF bs[i].state = SLEEPING
             THEN [bs[i] EXCEPT !.state = WORKING,
                                !.servingCustomerId = nextCustomer.id,
                                !.currentServiceStartTime = time,
                                !.serviceEndTime = time + svc]
             ELSE bs[i]],
        pushed |->
          [j \in 1..Len(sleepingBarberIndices) |->
             [nextCustomer EXCEPT !.state = GETTING_HAIRCUT,
                                  !.timeServed = time,
                                  !.servedBy = sleepingBarberIndices[j],
                                  !.serviceEndTime = time + svc,
                                  !.waitingPosition = None]],
        waiting |-> Reindex(SelectSeq(wq, keep))]

\* startHaircuts; its button is rendered while stopped or paused
StartHaircuts ==
    /\ ~isRunning \/ isPaused
    /\ IF SleepingPositions(barbers) = {} /\ Len(waitingCustomers) = 0
       THEN UNCHANGED <<isRunning, isPaused, barbers, waitingCustomers,
                        currentCustomers>>
       ELSE /\ isRunning' = TRUE
            /\ isPaused' = FALSE
            /\ IF Len(waitingCustomers) = 0 \/ SleepingPositions(barbers) = {}
               THEN UNCHANGED <<barbers, waitingCustomers, currentCustomers>>
               ELSE LET a == assignCustomersToBarbers(barbers, waitingCustomers,
                                                      currentTime, serviceTime)
                    IN /\ barbers' = a.barbers
                       /\ currentCustomers' = currentCustomers \o a.pushed
                       /\ waitingCustomers' = a.waiting
    /\ lastOp' = Plain("StartHaircuts", 0)
    /\ UNCHANGED <<params, currentTime, nextCustomerId, servedCustomers,
                   turnedAwayCustomers, deltaSum>>

\* mutant: no upper limit
Clamp_NoUpper(n, lo, hi) == IF n < lo THEN lo ELSE n

\* mutant: no lower limit
Clamp_NoLower(n, lo, hi) == IF n > hi THEN hi ELSE n

\* if (newCount < lo) newCount = lo; if (newCount > hi) newCount = hi
Clamp(n, lo, hi) == IF n < lo THEN lo ELSE IF n > hi THEN hi ELSE n

\* mutant: the new ids start again at 1
AddedBarbers_FromOne(len, newCount) ==
    IF newCount > len
    THEN [i \in 1..(newCount - len) |-> NewBarber(i)]
    ELSE <<>>

\* Array.from({ length: newCount - barbers.length }): empty when not positive
AddedBarbers(len, newCount) ==
    IF newCount > len
    THEN [i \in 1..(newCount - len) |-> NewBarber(len + i)]
    ELSE <<>>

RemoveAt(bs, i) == SubSeq(bs, 1, i - 1) \o SubSeq(bs, i + 1, Len(bs))

\* mutant: the scan removes working barbers as well
RECURSIVE RemoveSleeping_Any(_, _, _, _)
RemoveSleeping_Any(bs, i, removedCount, limit) ==
    IF i < 1 \/ removedCount >= limit THEN bs
    ELSE RemoveSleeping_Any(RemoveAt(bs, i), i - 1, removedCount + 1, limit)

\* for (i = length - 1; i >= 0 && removedCount < limit; i--) splice sleeping
RECURSIVE RemoveSleeping(_, _, _, _)
RemoveSleeping(bs, i, removedCount, limit) ==
    IF i < 1 \/ removedCount >= limit THEN bs
    ELSE IF bs[i].state = SLEEPING
         THEN RemoveSleeping(RemoveAt(bs, i), i - 1, removedCount + 1, limit)
         ELSE RemoveSleeping(bs, i - 1, removedCount, limit)

\* mutant: the ids are left as they were
Renumber_Keep(bs) == bs

\* updatedBarbers.forEach((barber, index) => { barber.id = index + 1 })
Renumber(bs) == [i \in 1..Len(bs) |-> [bs[i] EXCEPT !.id = i]]

updateBarberCount(bs, nb, n) ==
    LET newCount == Clamp(n, MinBarbers, MaxBarbers)
    IN IF newCount > nb THEN bs \o AddedBarbers(Len(bs), newCount)
       ELSE IF newCount < nb
            THEN Renumber(RemoveSleeping(bs, Len(bs), 0, nb - newCount))
            ELSE bs

\* the barber count control, for requested counts drawn from inputs
BarberCountInput(inputs) ==
    /\ \E n \in inputs :
         /\ barbers' = updateBarberCount(barbers, numBarbers, n)
         /\ numBarbers' = Clamp(n, MinBarbers, MaxBarbers)
         /\ lastOp' = Op("SetBarberCount", n, "none",
                          Len(barbers)
                          - Len(updateBarberCount(barbers, numBarbers, n)),
                          FALSE, numBarbers,
                          Cardinality(SleepingPositions(barbers)))
    /\ UNCHANGED <<numChairs, serviceTime, arrivalRate, simulationSpeed,
                   isRunning, isPaused, currentTime, nextCustomerId, lists,
                   deltaSum>>

SetBarberCount == BarberCountInput(BarberInputs)

\* waitingCustomers.slice(newCount) turned away with timeLeft = currentTime
TurnAway(cs, time) ==
    [i \in 1..Len(cs) |-> [cs[i] EXCEPT !.state = TURNED_AWAY, !.timeLeft = time]]

\* updateChairCount, for requested counts drawn from inputs
updateChairCount(inputs) ==
    /\ \E n \in inputs :
         LET newCount == Clamp(n, MinChairs, MaxChairs)
         IN /\ IF newCount < numChairs /\ Len(waitingCustomers) > newCount
               THEN /\ waitingCustomers' = SubSeq(waitingCustomers, 1, newCount)
                    /\ turnedAwayCustomers' = turnedAwayCustomers \o
                         TurnAway(SubSeq(waitingCustomers, newCount + 1,
                                         Len(waitingCustomers)), currentTime)
               ELSE UNCHANGED <<waitingCustomers, turnedAwayCustomers>>
            /\ numChairs' = newCount
            /\ lastOp' = Plain("SetChairCount", n)
    /\ UNCHANGED <<numBarbers, serviceTime, arrivalRate, simulationSpeed,
                   isRunning, isPaused, currentTime, nextCustomerId, barbers,
                   currentCustomers, servedCustomers, deltaSum>>

SetChairCount == updateChairCount(ChairInputs)

SetServiceTime ==
    /\ \E v \in ServiceTimeInputs :
         /\ serviceTime' = v
         /\ lastOp' = Plain("SetServiceTime", v)
    /\ UNCHANGED <<numBarbers, numChairs, arrivalRate, simulationSpeed,
                   isRunning, isPaused, currentTime, nextCustomerId, barbers,
                   lists, deltaSum>>

SetArrivalRate ==
    /\ \E v \in ArrivalRateInputs :
         /\ arrivalRate' = v
         /\ lastOp' = Plain("SetArrivalRate", v)
    /\ UNCHANGED <<numBarbers, numChairs, serviceTime, simulationSpeed,
                   isRunning, isPaused, currentTime, nextCustomerId, barbers,
                   lists, deltaSum>>

SetSimulationSpeed ==
    /\ \E v \in SpeedInputs :
         /\ simulationSpeed' = v
         /\ lastOp' = Plain("SetSimulationSpeed", v)
    /\ UNCHANGED <<numBarbers, numChairs, serviceTime, arrivalRate,
                   isRunning, isPaused, currentTime, nextCustomerId, barbers,
                   lists, deltaSum>>

\* the customer the barber card shows: currentCustomers.find(c => c.id === id)
\* (the first one; asked for only when there is one)
getCustomerById(cs, id) == cs[Min({j \in 1..Len(cs) : cs[j].id = id})]

\* barbers.findIndex(b => b.id === barberId), 0 when there is none
BarberIndexOfId(bs, barberId) ==
    IF barberId \in Ids(bs)
    THEN Min({i \in 1..Len(bs) : bs[i].id = barberId}) ELSE 0

\* handleServiceComplete(barberId) past its early returns: the updates it
\* enqueues from the values it reads.  updatedBarbers is handed to setBarbers
\* and then written again, so the last write is what the next render shows.
handleServiceComplete(bs, cs, wq, time, svc, barberId) ==
    LET barberIndex == BarberIndexOfId(bs, barberId)
        barber == bs[barberIndex]
        customer == getCustomerById(cs, barber.servingCustomerId)
        finishedCustomer == [customer EXCEPT !.state = SERVED, !.timeLeft = time]
        keep(c) == c.id # customer.id
        updatedCurrentCustomers == SelectSeq(cs, keep)
    IN IF Len(wq) > 0
       THEN LET nextCustomer == wq[1] IN
            [finished |-> finishedCustomer,
             barbers |-> [bs EXCEPT ![barberIndex] =
                            [@ EXCEPT !.totalCustomersServed =
                                          barber.totalCustomersServed + 1,
                                      !.servingCustomerId = nextCustomer.id,
                                      !.currentServiceStartTime = time,
                                      !.serviceEndTime = time + svc,
                                      !.state = WORKING]],
             current |-> Append(updatedCurrentCustomers,
                           [nextCustomer EXCEPT !.state = GETTING_HAIRCUT,
                                                !.timeServed = time,
                                                !.servedBy = barberId,
                                                !.serviceEndTime = time + svc,
                                                !.waitingPosition = None]),
             waiting |-> Reindex(Tail(wq))]
       ELSE [finished |-> finishedCustomer,
             barbers |-> [bs EXCEPT ![barberIndex] =
                            SleepingBarber(
                              [@ EXCEPT !.totalCustomersServed =
                                            barber.totalCustomersServed + 1,
                                        !.servingCustomerId = None])],
             current |-> updatedCurrentCustomers,
             waiting |-> wq]

\* ------------------------------------------------------------- metrics
\* (customer.timeServed || customer.timeArrived) - customer.timeArrived:
\* an unset or zero timeServed counts as no wait
WaitTime(c) ==
    (IF c.timeServed = None \/ c.timeServed = 0 THEN c.timeArrived
     ELSE c.timeServed) - c.timeArrived

\* servedCustomers.reduce((total, customer) => total + waitTime, 0)
RECURSIVE TotalWaitTime(_)
TotalWaitTime(cs) ==
    IF cs = <<>> THEN 0 ELSE WaitTime(Head(cs)) + TotalWaitTime(Tail(cs))

\* Math.round(x) for x = num / den with den > 0: floor(x + 1/2)
RoundDiv(num, den) == (2 * num + den) \div (2 * den)

\* mutant: the mean is cut to one decimal instead of rounded
averageWaitTime_Truncated(cs) ==
    IF Len(cs) = 0 THEN 0 ELSE (TotalWaitTime(cs) * 10) \div Len(cs)

\* averageWaitTime, in tenths of a second:
\* Math.round((totalWaitTime / servedCustomers.length) * 10) / 10
averageWaitTime(cs) ==
    IF Len(cs) = 0 THEN 0 ELSE RoundDiv(TotalWaitTime(cs) * 10, Len(cs))


\* onComplete of the Progress bar of a barber card.  The bar is rendered for
\* a working barber whose customer is in currentCustomers; it counts wall
\* clock time (setInterval, Date.now()), not simulated time, and neither the
\* bar nor the handler looks at isRunning, isPaused or serviceEndTime.
ServiceComplete ==
    /\ \E b \in 1..Len(barbers) :
         /\ barbers[b].state = WORKING
         /\ barbers[b].servingCustomerId \in Ids(currentCustomers)
         /\ LET r == handleServiceComplete(barbers, currentCustomers,
                       waitingCustomers, currentTime, serviceTime, barbers[b].id)
            IN /\ servedCustomers' = Append(servedCustomers, r.finished)
               /\ currentCustomers' = r.current
               /\ barbers' = r.barbers
               /\ waitingCustomers' = r.waiting
         /\ lastOp' = Plain("ServiceComplete", barbers[b].id)
    /\ UNCHANGED <<params, isRunning, isPaused, currentTime, nextCustomerId,
                   turnedAwayCustomers, deltaSum>>

Next ==
    \/ AddCustomer
    \/ Advance
    \/ AdvanceIdle
    \/ Reset
    \/ TogglePause
    \/ StartHaircuts
    \/ SetBarberCount
    \/ SetChairCount
    \/ SetServiceTime
    \/ SetArrivalRate
    \/ SetSimulationSpeed

Spec == Init /\ [][Next]_vars

\* ------------------------------------------------ negative frame deltas
\* deltaTime = timestamp - lastTimeRef.current is negative when the frame's
\* timestamp is older than the performance.now() stored by the handler that
\* started the loop; processTimeStep takes any number.
NegativeFrameDeltas == {-10000}

AdvanceNegative == animationLoop(NegativeFrameDeltas, MaxCustomers)

NextInvalidDelta ==
    \/ AddCustomer
    \/ Advance
    \/ AdvanceNegative
    \/ AdvanceIdle
    \/ Reset
    \/ TogglePause
    \/ StartHaircuts

SpecInvalidDelta == Init /\ [][NextInvalidDelta]_vars

\* ------------------------------------------- progress-bar completions
\* the engine commands together with the progress bar's callback
NextCallback ==
    \/ AddCustomer
    \/ Advance
    \/ AdvanceIdle
    \/ Reset
    \/ TogglePause
    \/ StartHaircuts
    \/ SetBarberCount
    \/ SetChairCount
    \/ ServiceComplete

SpecCallback == Init /\ [][NextCallback]_vars

\* ------------------------------------------------- resizing the shop
\* requested counts below, inside and above the ranges of the two controls
WideBarberInputs == {0, 2, 6}
WideChairInputs == {0, 2, 11}

SetBarberCountWide == BarberCountInput(WideBarberInputs)

SetChairCountWide == updateChairCount(WideChairInputs)

\* the commands that read or change the pool and the chairs of a running shop
NextResize ==
    \/ AddCustomer
    \/ Advance
    \/ Reset
    \/ SetBarberCountWide
    \/ SetChairCountWide
    \/ ServiceComplete

SpecResize == Init /\ [][NextResize]_vars

\* ------------------------------------------------- removing chairs
\* one more customer, so that two can wait behind a promotion and an arrival
MaxQueueCustomers == 4

QueueChairInputs == {1, 2}

AddCustomerQueue == handleBooking(MaxQueueCustomers)

AdvanceQueue == animationLoop(FrameDeltas, MaxQueueCustomers)

SetChairCountQueue == updateChairCount(QueueChairInputs)

NextQueue ==
    \/ AddCustomerQueue
    \/ AdvanceQueue
    \/ Reset
    \/ SetChairCountQueue

SpecQueue == Init /\ [][NextQueue]_vars

\* The engine with the service time slider and both completion paths, for the
\* claims about the duration of a service.
NextServiceTime ==
    \/ AddCustomer
    \/ Advance
    \/ Reset
    \/ SetBarberCount
    \/ SetServiceTime
    \/ ServiceComplete

SpecServiceTime == Init /\ [][NextServiceTime]_vars

\* The engine driven by its animation loop: a frame that runs processTimeStep
\* ends with requestAnimationFrame(animationLoop), so while the loop is
\* running and not paused a time step that is possible is eventually taken.
\* The simulation is never paused here.
NextLive ==
    \/ AddCustomer
    \/ Advance
    \/ SetBarberCount
    \/ SetChairCount
    \/ ServiceComplete

SpecLive == Init /\ [][NextLive]_vars /\ WF_vars(Advance)

\* ===================================================================
\* Properties
\* ===================================================================
Count(seq, id) == Cardinality({i \in 1..Len(seq) : seq[i].id = id})

Occurrences(id) ==
    Count(waitingCustomers, id) + Count(currentCustomers, id)
    + Count(servedCustomers, id) + Count(turnedAwayCustomers, id)

IsAdmission(op) ==
    \/ op.op = "AddCustomer"
    \/ op.op = "Advance" /\ op.outcome # "none"

\* C1: in every reachable state the waiting queue holds at most numChairs
\* customers.
C1_QueueWithinCapacity == Len(waitingCustomers) <= numChairs

\* a customer was turned away at a queue that is exactly full
C1_Witness ==
    /\ IsAdmission(lastOp)
    /\ lastOp.outcome = "turned_away"
    /\ Len(waitingCustomers) = numChairs

\* C2: every customer created so far (ids 1 .. nextCustomerId - 1) is held by
\* exactly one of waitingCustomers, currentCustomers, servedCustomers and
\* turnedAwayCustomers, exactly once.
C2_ExactlyOneCollection ==
    \A id \in 1..(nextCustomerId - 1) : Occurrences(id) = 1

\* C3: every working barber serves a customer that is in currentCustomers and
\* whose servedBy is that barber's id.
C3_WorkingBarberHasCustomer ==
    \A i \in 1..Len(barbers) :
        barbers[i].state = WORKING =>
            \E j \in 1..Len(currentCustomers) :
                /\ currentCustomers[j].id = barbers[i].servingCustomerId
                /\ currentCustomers[j].servedBy = barbers[i].id

\* a working barber left behind by an earlier removal and renumbering
C3_Renumbered ==
    /\ lastOp.op = "SetBarberCount"
    /\ \E i \in 1..Len(barbers), j \in 1..Len(currentCustomers) :
         /\ barbers[i].state = WORKING
         /\ currentCustomers[j].id = barbers[i].servingCustomerId
         /\ currentCustomers[j].servedBy # barbers[i].id

SleepingIds(bs) == {bs[i].id : i \in SleepingPositions(bs)}

Last(seq) == seq[Len(seq)]

\* C4: an admission (AddCustomer, or the arrival of a time step) that reads a
\* state with a sleeping barber gives the new customer to the sleeping barber
\* of lowest id: that barber is working on the new customer, the customer is
\* the newest entry of currentCustomers with timeServed = timeArrived = the
\* clock the admission read and serviceEndTime = that clock + serviceTime, and
\* the admission adds the customer neither to the queue nor to the turned
\* away list.
C4_LowestSleepingBarberChosen ==
    [][IsAdmission(lastOp') /\ SleepingPositions(barbers) # {} =>
         LET b == Min(SleepingIds(barbers)) IN
         /\ lastOp'.outcome = "assigned"
         /\ Len(currentCustomers') > 0
         /\ Last(currentCustomers').id = nextCustomerId
         /\ Last(currentCustomers').state = GETTING_HAIRCUT
         /\ Last(currentCustomers').servedBy = b
         /\ Last(currentCustomers').timeArrived = currentTime
         /\ Last(currentCustomers').timeServed = currentTime
         /\ Last(currentCustomers').serviceEndTime = currentTime + serviceTime
         /\ \A i \in 1..Len(barbers') :
              barbers'[i].servingCustomerId = nextCustomerId
              <=> barbers'[i].id = b
         /\ \A i \in 1..Len(barbers') :
              barbers'[i].id = b => barbers'[i].state = WORKING
         /\ turnedAwayCustomers' = turnedAwayCustomers
         /\ nextCustomerId \notin Ids(waitingCustomers')
         /\ lastOp'.op = "AddCustomer" => waitingCustomers' = waitingCustomers
      ]_vars

\* AddCustomer with two sleeping barbers: barber 1 took the customer
C4_Witness ==
    /\ lastOp.op = "AddCustomer"
    /\ lastOp.outcome = "assigned"
    /\ lastOp.s >= 2
    /\ barbers[1].servingCustomerId = nextCustomerId - 1
    /\ barbers[2].state = SLEEPING

\* C5: AddCustomer with no sleeping barber and a queue shorter than numChairs
\* appends the new customer at the tail, waiting, with waitingPosition equal
\* to the old queue length, and leaves barbers, currentCustomers,
\* servedCustomers and turnedAwayCustomers unchanged.
C5_QueuedAtTail ==
    [][lastOp'.op = "AddCustomer" /\ SleepingPositions(barbers) = {}
       /\ Len(waitingCustomers) < numChairs =>
         /\ Len(waitingCustomers') = Len(waitingCustomers) + 1
         /\ SubSeq(waitingCustomers', 1, Len(waitingCustomers)) = waitingCustomers
         /\ Last(waitingCustomers').id = nextCustomerId
         /\ Last(waitingCustomers').state = WAITING
         /\ Last(waitingCustomers').waitingPosition = Len(waitingCustomers)
         /\ Last(waitingCustomers').timeArrived = currentTime
         /\ UNCHANGED <<barbers, currentCustomers, servedCustomers,
                        turnedAwayCustomers>>
      ]_vars

\* a customer queued behind another one
C5_Witness ==
    /\ lastOp.op = "AddCustomer"
    /\ lastOp.outcome = "queued"
    /\ lastOp.q >= 1
    /\ Len(waitingCustomers) = lastOp.q + 1
    /\ Last(waitingCustomers).waitingPosition = lastOp.q

\* C6: AddCustomer with no sleeping barber and a full queue records the new
\* customer at the end of turnedAwayCustomers, turned away with timeLeft =
\* timeArrived = currentTime, consumes one customer id and leaves barbers,
\* waitingCustomers, currentCustomers and servedCustomers unchanged.
C6_RejectedWhenFull ==
    [][lastOp'.op = "AddCustomer" /\ SleepingPositions(barbers) = {}
       /\ Len(waitingCustomers) >= numChairs =>
         /\ lastOp'.outcome = "turned_away"
         /\ Len(turnedAwayCustomers') = Len(turnedAwayCustomers) + 1
         /\ SubSeq(turnedAwayCustomers', 1, Len(turnedAwayCustomers))
              = turnedAwayCustomers
         /\ Last(turnedAwayCustomers').id = nextCustomerId
         /\ Last(turnedAwayCustomers').state = TURNED_AWAY
         /\ Last(turnedAwayCustomers').timeArrived = currentTime
         /\ Last(turnedAwayCustomers').timeLeft = currentTime
         /\ nextCustomerId' = nextCustomerId + 1
         /\ UNCHANGED <<barbers, waitingCustomers, currentCustomers,
                        servedCustomers>>
      ]_vars

\* Scenario B: one barber, one chair, the third customer is the only one
\* turned away
C6_Witness ==
    /\ lastOp.op = "AddCustomer"
    /\ lastOp.outcome = "turned_away"
    /\ Len(barbers) = 1
    /\ numChairs = 1
    /\ Ids(currentCustomers) = {1}
    /\ Ids(waitingCustomers) = {2}
    /\ Len(turnedAwayCustomers) = 1
    /\ turnedAwayCustomers[1].id = 3

\* C7: after a time step to newTime, every customer that was in
\* currentCustomers with serviceEndTime <= newTime is in servedCustomers,
\* served, with timeLeft = its serviceEndTime, and every other customer of
\* currentCustomers is still there, unchanged.
C7_CompletedAreServed ==
    [][lastOp'.op = "Advance" =>
         \A j \in 1..Len(currentCustomers) :
            LET c == currentCustomers[j] IN
            IF c.serviceEndTime <= currentTime'
            THEN /\ c.id \notin Ids(currentCustomers')
                 /\ \E k \in 1..Len(servedCustomers') :
                      servedCustomers'[k] =
                        [c EXCEPT !.state = SERVED, !.timeLeft = c.serviceEndTime]
            ELSE \E k \in 1..Len(currentCustomers') : currentCustomers'[k] = c
      ]_vars

MinOf(a, b) == IF a <= b THEN a ELSE b

\* C8: when k >= 2 services end in one time step and q customers wait, the
\* first min(k, q) waiting customers leave the queue, each is in
\* currentCustomers once, with timeServed = newTime and serviceEndTime =
\* newTime + serviceTime and a barber of its own, and the rest of the queue is
\* reindexed from 0.
C8_PromotesMinKQ ==
    [][lastOp'.op = "Advance" /\ lastOp'.k >= 2 /\ Len(waitingCustomers) >= 1 =>
         LET q == Len(waitingCustomers)
             m == MinOf(lastOp'.k, q)
             arrived == IF lastOp'.outcome = "queued" THEN 1 ELSE 0
         IN /\ Len(waitingCustomers') = q - m + arrived
            /\ \A j \in 1..(q - m) :
                 waitingCustomers'[j] =
                   [waitingCustomers[j + m] EXCEPT !.waitingPosition = j - 1]
            /\ \A j \in 1..m :
                 /\ Count(currentCustomers', waitingCustomers[j].id) = 1
                 /\ \A i \in 1..Len(currentCustomers') :
                      currentCustomers'[i].id = waitingCustomers[j].id =>
                        /\ currentCustomers'[i].timeServed = currentTime'
                        /\ currentCustomers'[i].serviceEndTime
                             = currentTime' + serviceTime
            /\ \A i1, i2 \in 1..Len(currentCustomers') :
                 (i1 # i2 /\ currentCustomers'[i1].timeServed = currentTime'
                  /\ currentCustomers'[i2].timeServed = currentTime')
                 => currentCustomers'[i1].servedBy # currentCustomers'[i2].servedBy
      ]_vars

\* C9: in a time step that completes a service with an empty queue and also
\* admits an arrival, the arrival is assigned to a barber, and the completion
\* is still in place afterwards: the finished customer is in servedCustomers
\* and not in currentCustomers, and its barber has one more customer served
\* and no longer serves it.
C9_CompletionBeforeArrival ==
    [][lastOp'.op = "Advance" /\ lastOp'.outcome # "none" /\ lastOp'.k >= 1
       /\ Len(waitingCustomers) = 0 =>
         /\ lastOp'.outcome = "assigned"
         /\ \A j \in 1..Len(currentCustomers) :
              LET c == currentCustomers[j] IN
              c.serviceEndTime <= currentTime' =>
                /\ c.id \in Ids(servedCustomers')
                /\ c.id \notin Ids(currentCustomers')
                /\ barbers'[c.servedBy].totalCustomersServed
                     = barbers[c.servedBy].totalCustomersServed + 1
                /\ barbers'[c.servedBy].servingCustomerId # c.id
      ]_vars

\* C10: the clock equals the sum of the time steps applied since the last
\* initialization, never decreases between initializations, advances by the
\* step of each Advance and is left alone by every other command.
C10_ClockIsSumOfDeltas ==
    [][/\ currentTime' = deltaSum'
       /\ lastOp'.op # "Initialize" => currentTime' >= currentTime
       /\ lastOp'.op = "Advance" => currentTime' = currentTime + lastOp'.arg
       /\ lastOp'.op \notin {"Advance", "Initialize"} => currentTime' = currentTime
      ]_vars

\* two time steps of 10 have been applied
C10_Witness ==
    /\ lastOp.op = "Advance"
    /\ lastOp.arg = 10
    /\ currentTime = 20
    /\ deltaSum = 20

\* C11: a time step with a negative delta is rejected as invalid and leaves
\* currentTime, barbers, the four customer lists and nextCustomerId unchanged.
C11_NegativeDeltaRejected ==
    [][lastOp'.op = "Advance" /\ lastOp'.arg < 0 =>
         /\ UNCHANGED <<currentTime, barbers, lists, nextCustomerId>>
         /\ lastOp'.outcome = "invalid"
      ]_vars

\* C12: a time step with a non-negative delta never throws, and it is applied
\* as a whole: when it has advanced the clock, every customer whose service
\* had ended by the new time has left currentCustomers for servedCustomers.
C12_AdvanceNeverFails ==
    [][lastOp'.op = "Advance" /\ lastOp'.arg >= 0 =>
         /\ ~lastOp'.crashed
         /\ currentTime' # currentTime =>
              \A j \in 1..Len(currentCustomers) :
                 LET c == currentCustomers[j] IN
                 (c.state = GETTING_HAIRCUT /\ Truthy(c.serviceEndTime)
                  /\ c.serviceEndTime <= currentTime')
                 => /\ c.id \in Ids(servedCustomers')
                    /\ c.id \notin Ids(currentCustomers')
      ]_vars

\* C13: in every step that keeps the pool (every command but initialization
\* and SetBarberCount), each barber's totalCustomersServed grows by exactly
\* the number of entries the step appends to servedCustomers for the customer
\* that barber was serving: by 1 when its service completes, by 0 otherwise
\* (admission, promotion and Start Haircuts included), and never shrinks.
C13_TotalServedCountsCompletions ==
    [][lastOp'.op \notin {"Initialize", "SetBarberCount"} =>
         /\ Len(barbers') = Len(barbers)
         /\ \A i \in 1..Len(barbers) :
              barbers'[i].totalCustomersServed =
                barbers[i].totalCustomersServed
                + Cardinality({k \in (Len(servedCustomers) + 1)..Len(servedCustomers') :
                                 servedCustomers'[k].id = barbers[i].servingCustomerId})
      ]_vars

\* C14: a customer is appended to servedCustomers only by a time step, and
\* only when the clock has reached its serviceEndTime.
C14_ServedOnlyByAdvance ==
    [][\A k \in (Len(servedCustomers) + 1)..Len(servedCustomers') :
         /\ lastOp'.op = "Advance"
         /\ currentTime' >= servedCustomers'[k].serviceEndTime
      ]_vars

\* the r highest positions of sleeping barbers
HighestSleeping(bs, r) ==
    {i \in SleepingPositions(bs) :
        Cardinality({j \in SleepingPositions(bs) : j > i}) < r}

\* C15: SetBarberCount(n) with n (clamped) below numBarbers removes exactly
\* the min(numBarbers - n, number of sleeping barbers) sleeping barbers of
\* highest position and no working barber; the barbers that stay keep their
\* order and every field but the id, which becomes their new position, and
\* the customer lists, the clock and nextCustomerId are unchanged.
C15_OnlySleepingBarbersRemoved ==
    [][lastOp'.op = "SetBarberCount"
       /\ Clamp(lastOp'.arg, MinBarbers, MaxBarbers) < numBarbers =>
         LET r == MinOf(numBarbers - Clamp(lastOp'.arg, MinBarbers, MaxBarbers),
                        Cardinality(SleepingPositions(barbers)))
             kept == SortedSeq((1..Len(barbers)) \ HighestSleeping(barbers, r))
         IN /\ Len(barbers') = Len(barbers) - r
            /\ Len(barbers') = Len(kept)
            /\ \A p \in 1..Len(kept) :
                 barbers'[p] = [barbers[kept[p]] EXCEPT !.id = p]
            /\ \A i \in 1..Len(barbers) :
                 barbers[i].state = WORKING =>
                   \E p \in 1..Len(barbers') :
                      /\ barbers'[p].state = WORKING
                      /\ barbers'[p].servingCustomerId = barbers[i].servingCustomerId
            /\ UNCHANGED <<lists, currentTime, nextCustomerId>>
      ]_vars

\* three sleeping barbers were removed from above and around a working one:
\* the pool (sleeping, working, sleeping, sleeping, sleeping) became
\* (sleeping, working)
C15_Witness ==
    /\ lastOp.op = "SetBarberCount"
    /\ lastOp.k = 3
    /\ lastOp.s = 4
    /\ Len(barbers) = 2
    /\ barbers[1].state = SLEEPING
    /\ barbers[2].state = WORKING
    /\ barbers[2].id = 2

\* C16: before and after every step the barber at position i has id i, and a
\* SetBarberCount step changes nothing in servedCustomers and
\* turnedAwayCustomers.
C16_BarberIdsSequential ==
    [][/\ \A i \in 1..Len(barbers) : barbers[i].id = i
       /\ \A i \in 1..Len(barbers') : barbers'[i].id = i
       /\ lastOp'.op = "SetBarberCount" =>
            UNCHANGED <<servedCustomers, turnedAwayCustomers>>
      ]_vars

\* a sleeping barber was removed below a working one, which now has id 1
\* while its customer and a served customer keep the ids recorded earlier
C16_Witness ==
    /\ lastOp.op = "SetBarberCount"
    /\ lastOp.k = 1
    /\ Len(barbers) = 1
    /\ barbers[1].state = WORKING
    /\ barbers[1].id = 1
    /\ \E j \in 1..Len(currentCustomers) :
         /\ currentCustomers[j].id = barbers[1].servingCustomerId
         /\ currentCustomers[j].servedBy = 2
    /\ \E j \in 1..Len(servedCustomers) : servedCustomers[j].servedBy = 1

\* C17 as stated: SetBarberCount(n) with n (clamped) above numBarbers appends
\* sleeping barbers with totalCustomersServed = 0 and ids continuing from the
\* pool size until the pool holds n barbers, and leaves the barbers already
\* there, the customer lists, the clock and nextCustomerId unchanged.
C17_PoolHoldsRequested ==
    [][lastOp'.op = "SetBarberCount"
       /\ Clamp(lastOp'.arg, MinBarbers, MaxBarbers) > numBarbers =>
         /\ Len(barbers') = Clamp(lastOp'.arg, MinBarbers, MaxBarbers)
         /\ SubSeq(barbers', 1, Len(barbers)) = barbers
         /\ \A i \in (Len(barbers) + 1)..Len(barbers') :
              barbers'[i] = NewBarber(i)
         /\ UNCHANGED <<lists, currentTime, nextCustomerId>>
      ]_vars

\* C17, amended: the barbers appended are the ones missing from the pool, none
\* when the pool already holds n or more (after a decrease that working
\* barbers blocked): the pool then holds max(n, its old size) barbers.
C17_PoolGrowsToRequested ==
    [][lastOp'.op = "SetBarberCount"
       /\ Clamp(lastOp'.arg, MinBarbers, MaxBarbers) > numBarbers =>
         /\ Len(barbers') = IF Clamp(lastOp'.arg, MinBarbers, MaxBarbers)
                                > Len(barbers)
                            THEN Clamp(lastOp'.arg, MinBarbers, MaxBarbers)
                            ELSE Len(barbers)
         /\ SubSeq(barbers', 1, Len(barbers)) = barbers
         /\ \A i \in (Len(barbers) + 1)..Len(barbers') :
              barbers'[i] = NewBarber(i)
         /\ numBarbers' = Clamp(lastOp'.arg, MinBarbers, MaxBarbers)
         /\ UNCHANGED <<lists, currentTime, nextCustomerId>>
      ]_vars

\* a pool of two working barbers with numBarbers = 1 was raised to five:
\* three sleeping barbers with ids 3, 4 and 5 were appended
C17_Witness ==
    /\ lastOp.op = "SetBarberCount"
    /\ lastOp.q = 1
    /\ lastOp.k = -3
    /\ numBarbers = 5
    /\ Len(barbers) = 5
    /\ barbers[1].state = WORKING
    /\ barbers[2].state = WORKING
    /\ barbers[5] = NewBarber(5)

\* C18: SetChairCount(n) with n (clamped) below the queue length keeps the
\* first n waiting customers, in order, waiting with waitingPosition 0..n-1,
\* appends the others to turnedAwayCustomers, in order, turned away with
\* timeLeft = currentTime, and leaves barbers, currentCustomers and
\* servedCustomers unchanged.
C18_TailTurnedAway ==
    [][lastOp'.op = "SetChairCount"
       /\ Clamp(lastOp'.arg, MinChairs, MaxChairs) < Len(waitingCustomers) =>
         LET n == Clamp(lastOp'.arg, MinChairs, MaxChairs)
             q == Len(waitingCustomers)
         IN /\ Len(waitingCustomers') = n
            /\ \A i \in 1..n :
                 /\ waitingCustomers'[i].id = waitingCustomers[i].id
                 /\ waitingCustomers'[i].state = WAITING
                 /\ waitingCustomers'[i].waitingPosition = i - 1
            /\ Len(turnedAwayCustomers') = Len(turnedAwayCustomers) + q - n
            /\ SubSeq(turnedAwayCustomers', 1, Len(turnedAwayCustomers))
                 = turnedAwayCustomers
            /\ \A i \in 1..(q - n) :
                 turnedAwayCustomers'[Len(turnedAwayCustomers) + i] =
                   [waitingCustomers[n + i] EXCEPT !.state = TURNED_AWAY,
                                                   !.timeLeft = currentTime]
            /\ UNCHANGED <<barbers, currentCustomers, servedCustomers>>
      ]_vars

\* C19: SetChairCount(n) with n (clamped) at or above the queue length sets
\* numChairs and changes nothing else of the shop; and an AddCustomer that
\* finds no sleeping barber queues the customer exactly when the queue is
\* shorter than the numChairs of that moment.
C19_OnlyCapacityChanges ==
    [][/\ (lastOp'.op = "SetChairCount"
           /\ Clamp(lastOp'.arg, MinChairs, MaxChairs) >= Len(waitingCustomers))
          => /\ numChairs' = Clamp(lastOp'.arg, MinChairs, MaxChairs)
             /\ UNCHANGED <<barbers, lists, currentTime, nextCustomerId,
                            numBarbers>>
       /\ (lastOp'.op = "AddCustomer" /\ SleepingPositions(barbers) = {})
          => (lastOp'.outcome = "queued"
              <=> Len(waitingCustomers) < numChairs)
      ]_vars

\* the capacity was set to the length of the queue: both customers still wait
\* and nobody was turned away
C19_Witness ==
    /\ lastOp.op = "SetChairCount"
    /\ lastOp.arg = 2
    /\ numChairs = 2
    /\ Len(waitingCustomers) = 2
    /\ turnedAwayCustomers = <<>>

\* C20: numBarbers is always in 1..5 and numChairs in 1..10; right after
\* SetBarberCount(n) numBarbers is n brought into 1..5, and right after
\* SetChairCount(n) numChairs is n brought into 1..10.
C20_CountsClamped ==
    /\ numBarbers \in 1..5
    /\ numChairs \in 1..10
    /\ lastOp.op = "SetBarberCount" =>
         numBarbers = IF lastOp.arg < 1 THEN 1
                      ELSE IF lastOp.arg > 5 THEN 5 ELSE lastOp.arg
    /\ lastOp.op = "SetChairCount" =>
         numChairs = IF lastOp.arg < 1 THEN 1
                     ELSE IF lastOp.arg > 10 THEN 10 ELSE lastOp.arg

\* six barbers were asked for in a shop whose chairs had been set to eleven
C20_Witness ==
    /\ lastOp.op = "SetBarberCount"
    /\ lastOp.arg = 6
    /\ numBarbers = 5
    /\ Len(barbers) = 5
    /\ numChairs = 10

\* C21: SetBarberCount(n) and SetChairCount(n) with n <= 0 are rejected: the
\* barbers, the customer lists, numBarbers, numChairs, the clock and
\* nextCustomerId are unchanged.
C21_NonPositiveCountRejected ==
    [][lastOp'.op \in {"SetBarberCount", "SetChairCount"} /\ lastOp'.arg <= 0 =>
         UNCHANGED <<barbers, lists, numBarbers, numChairs, currentTime,
                     nextCustomerId>>
      ]_vars

\* C22: a reset leaves the clock at 0, nextCustomerId at 1, the four customer
\* lists empty, and a pool of exactly numBarbers barbers, the barber at
\* position i with id i, sleeping, with no customer, no service times and
\* totalCustomersServed = 0; numBarbers and numChairs keep their values.
C22_ResetYieldsInitialState ==
    [][lastOp'.op = "Initialize" =>
         /\ currentTime' = 0
         /\ nextCustomerId' = 1
         /\ waitingCustomers' = <<>>
         /\ currentCustomers' = <<>>
         /\ servedCustomers' = <<>>
         /\ turnedAwayCustomers' = <<>>
         /\ Len(barbers') = numBarbers
         /\ \A i \in 1..Len(barbers') :
              barbers'[i] = [id |-> i, state |-> SLEEPING,
                             servingCustomerId |-> None,
                             totalCustomersServed |-> 0,
                             currentServiceStartTime |-> None,
                             serviceEndTime |-> None]
         /\ UNCHANGED <<numBarbers, numChairs>>
      ]_vars

\* a reset of a shop that had admitted three customers and held three barbers
\* for a configured count of two
C22_Witness ==
    /\ lastOp.op = "Initialize"
    /\ lastOp.arg = 3
    /\ lastOp.q = 3
    /\ numBarbers = 2
    /\ Len(barbers) = 2
    /\ nextCustomerId = 1

AllCustomers ==
    {waitingCustomers[i] : i \in 1..Len(waitingCustomers)}
    \cup {currentCustomers[i] : i \in 1..Len(currentCustomers)}
    \cup {servedCustomers[i] : i \in 1..Len(servedCustomers)}
    \cup {turnedAwayCustomers[i] : i \in 1..Len(turnedAwayCustomers)}

AllIds == {c.id : c \in AllCustomers}

\* C23: between resets every admission (booking or arrival of a time step,
\* whatever its outcome) gives the new customer the id nextCustomerId, which
\* no customer holds yet, and raises nextCustomerId by 1; no other command
\* changes nextCustomerId or the set of ids in use; every id in use is below
\* nextCustomerId, and records with the same id are records of the same
\* arrival.
C23_IdsIncrease ==
    [][/\ \A id \in AllIds' : 1 <= id /\ id < nextCustomerId'
       /\ \A a, b \in AllCustomers' :
            a.id = b.id => a.timeArrived = b.timeArrived
       /\ IsAdmission(lastOp') =>
            /\ nextCustomerId \notin AllIds
            /\ AllIds' = AllIds \cup {nextCustomerId}
            /\ nextCustomerId' = nextCustomerId + 1
       /\ (~IsAdmission(lastOp') /\ lastOp'.op # "Initialize") =>
            /\ AllIds' = AllIds
            /\ nextCustomerId' = nextCustomerId
      ]_vars

\* ids 1, 2 and 3 went to a customer served at once, a queued one and an
\* arrival of a time step that was turned away
C23_Witness ==
    /\ lastOp.op = "Advance"
    /\ lastOp.outcome = "turned_away"
    /\ nextCustomerId = 4
    /\ AllIds = {1, 2, 3}
    /\ Ids(turnedAwayCustomers) = {3}

IsPrefix(s, t) == Len(s) <= Len(t) /\ SubSeq(t, 1, Len(s)) = s

\* C24: every command but a reset keeps servedCustomers and
\* turnedAwayCustomers as prefixes of their new values: entries are only
\* appended, and no entry already there is changed, moved or removed.
C24_HistoryAppendOnly ==
    [][lastOp'.op # "Initialize" =>
         /\ IsPrefix(servedCustomers, servedCustomers')
         /\ IsPrefix(turnedAwayCustomers, turnedAwayCustomers')
      ]_vars

\* the progress bar completed a second service after a time step had
\* completed the first, with a turned away customer on record
C24_Witness ==
    /\ lastOp.op = "ServiceComplete"
    /\ Len(servedCustomers) = 2
    /\ servedCustomers[1].id = 1
    /\ servedCustomers[2].id = 2
    /\ Len(turnedAwayCustomers) = 1

\* C25: in every reachable state the i-th customer of the waiting queue
\* (counted from 1) has waitingPosition i, stored zero-based as i - 1.
C25_WaitingPositionsDense ==
    \A i \in 1..Len(waitingCustomers) :
        waitingCustomers[i].waitingPosition = i - 1

\* C26: in every reachable state a barber is working exactly when its
\* servingCustomerId is set; a working barber has currentServiceStartTime
\* and serviceEndTime set, a sleeping barber has neither of them nor a
\* customer.
C26_BarberFieldsAgree ==
    \A i \in 1..Len(barbers) :
        LET b == barbers[i] IN
        /\ b.state \in {SLEEPING, WORKING}
        /\ b.state = WORKING <=> b.servingCustomerId # None
        /\ b.state = WORKING =>
             b.currentServiceStartTime # None /\ b.serviceEndTime # None
        /\ b.state = SLEEPING =>
             /\ b.servingCustomerId = None
             /\ b.currentServiceStartTime = None
             /\ b.serviceEndTime = None

\* a barber went to sleep through the progress bar's callback while another
\* barber, given the queue's head by a time step, is working
C26_Witness ==
    /\ lastOp.op = "ServiceComplete"
    /\ \E i, j \in 1..Len(barbers) :
         /\ barbers[i].state = SLEEPING
         /\ barbers[i].totalCustomersServed > 0
         /\ barbers[j].state = WORKING
         /\ barbers[j].totalCustomersServed > 0

\* C27: the waiting queue is in arrival order (strictly increasing id) in
\* every state; in every step but a reset the customers that leave the queue
\* are either a prefix of it, and then they are in service afterwards, or a
\* suffix of it, and then they are turned away afterwards, and whoever joins
\* the queue joins behind those that stay.
C27_QueueIsFIFO ==
    [][/\ \A i, j \in 1..Len(waitingCustomers') :
            i < j => waitingCustomers'[i].id < waitingCustomers'[j].id
       /\ lastOp'.op # "Initialize" =>
            \E h \in 0..Len(waitingCustomers) :
              \E t \in h..Len(waitingCustomers) :
                /\ \A i \in 1..h : waitingCustomers[i].id \in Ids(currentCustomers')
                /\ \A i \in (t + 1)..Len(waitingCustomers) :
                     waitingCustomers[i].id \in Ids(turnedAwayCustomers')
                /\ Len(waitingCustomers') >= t - h
                /\ \A i \in 1..(t - h) :
                     waitingCustomers'[i].id = waitingCustomers[h + i].id
                /\ \A i \in (t - h + 1)..Len(waitingCustomers') :
                     waitingCustomers'[i].id \notin Ids(waitingCustomers)
      ]_vars

\* a time step promoted the head of a queue of two and left the second
C27_Witness ==
    /\ lastOp.op = "Advance"
    /\ Len(waitingCustomers) = 1
    /\ waitingCustomers[1].id = 3
    /\ 2 \in Ids(currentCustomers)
    /\ 1 \in Ids(servedCustomers)

\* C28: a customer's timeArrived is the same in every state in which the
\* customer exists; and in every state timeServed >= timeArrived,
\* serviceEndTime >= timeServed and timeLeft >= timeArrived for every
\* customer on which they are set.
C28_TimesOrdered ==
    [][/\ \A a \in AllCustomers : \A b \in AllCustomers' :
            a.id = b.id => b.timeArrived = a.timeArrived
       /\ \A c \in AllCustomers' :
            /\ c.timeServed # None => c.timeServed >= c.timeArrived
            /\ c.serviceEndTime # None =>
                 c.timeServed # None /\ c.serviceEndTime >= c.timeServed
            /\ c.timeLeft # None => c.timeLeft >= c.timeArrived
      ]_vars

Records(q) == {q[i] : i \in 1..Len(q)}

\* C29: a SetServiceTime step sets serviceTime to its argument and changes
\* nothing else, in particular no barber and no customer in service.  In
\* every step but a reset a customer in service keeps its timeServed and
\* serviceEndTime, whether it stays in service or is served; a customer that
\* a time step serves leaves at its serviceEndTime; and a customer that
\* enters service gets serviceEndTime = timeServed + the serviceTime in force
\* at that step.
C29_ServiceTimeAppliesLater ==
    [][/\ lastOp'.op = "SetServiceTime" =>
            /\ serviceTime' = lastOp'.arg
            /\ UNCHANGED <<barbers, lists, currentTime, nextCustomerId,
                           numBarbers, numChairs, arrivalRate, simulationSpeed,
                           isRunning, isPaused>>
       /\ lastOp'.op # "Initialize" =>
            /\ \A c \in Records(currentCustomers) :
                 \E d \in Records(currentCustomers') \cup Records(servedCustomers') :
                    /\ d.id = c.id
                    /\ d.timeServed = c.timeServed
                    /\ d.serviceEndTime = c.serviceEndTime
            /\ \A d \in Records(currentCustomers') :
                 d.id \notin Ids(currentCustomers) =>
                    d.serviceEndTime = d.timeServed + serviceTime
       /\ lastOp'.op = "Advance" =>
            \A i \in (Len(servedCustomers) + 1)..Len(servedCustomers') :
                servedCustomers'[i].timeLeft = servedCustomers'[i].serviceEndTime
      ]_vars

\* serviceTime was raised from 10 to 20 between two assignments: the earlier
\* customer's service still lasts 10, the later one's lasts 20
C29_Witness ==
    /\ serviceTime = 20
    /\ \E a, b \in Records(currentCustomers) :
         /\ a.id < b.id
         /\ a.serviceEndTime = a.timeServed + 10
         /\ b.serviceEndTime = b.timeServed + 20

\* C30: a time step taken while the simulation is not running or is paused
\* leaves currentTime, the barbers, the four customer lists and
\* nextCustomerId as they were: nothing completes and nobody arrives.
C30_IdleStepChangesNothing ==
    [][(lastOp'.op \in {"Advance", "AdvanceIdle"} /\ (~isRunning \/ isPaused)) =>
         UNCHANGED <<currentTime, barbers, lists, nextCustomerId,
                     isRunning, isPaused>>
      ]_vars

\* a frame came while the simulation was paused at time 10 with one
\* customer in service and one waiting
C30_Witness ==
    /\ lastOp.op = "AdvanceIdle"
    /\ isRunning /\ isPaused
    /\ currentTime = 10
    /\ Len(currentCustomers) = 1
    /\ Len(waitingCustomers) = 1

WorkingPositions(bs) == {i \in 1..Len(bs) : bs[i].state = WORKING}

\* C32: in every reachable state no two entries of currentCustomers have
\* the same servedBy, no customer is the servingCustomerId of two barbers,
\* and currentCustomers has as many entries as there are working barbers.
C32_OneCustomerPerBarber ==
    /\ \A i, j \in 1..Len(currentCustomers) :
         i # j => currentCustomers[i].servedBy # currentCustomers[j].servedBy
    /\ \A i, j \in 1..Len(barbers) :
         (i # j /\ barbers[i].servingCustomerId # None) =>
             barbers[i].servingCustomerId # barbers[j].servingCustomerId
    /\ Len(currentCustomers) = Cardinality(WorkingPositions(barbers))

\* C34: in every reachable state a non-empty waiting queue implies that no
\* barber is sleeping.
C34_NoIdleBarberWhileWaiting ==
    Len(waitingCustomers) > 0 => SleepingPositions(barbers) = {}

\* C35: in every reachable state the four customer lists together hold
\* nextCustomerId - 1 entries.
C35_CustomersConserved ==
    Len(waitingCustomers) + Len(currentCustomers) + Len(servedCustomers)
    + Len(turnedAwayCustomers) = nextCustomerId - 1

RECURSIVE TotalServed(_)
TotalServed(bs) ==
    IF bs = <<>> THEN 0 ELSE Head(bs).totalCustomersServed + TotalServed(Tail(bs))

\* C36: in every state the totalCustomersServed of the barbers in the pool
\* add up to at most the length of servedCustomers; and every step that is
\* not a reset and removes no barber changes that sum by exactly the number
\* of customers it appends to servedCustomers, so the two are equal as long
\* as no barber was removed.
C36_TotalServedMatchesServed ==
    [][/\ TotalServed(barbers') <= Len(servedCustomers')
       /\ (lastOp'.op # "Initialize" /\ Len(barbers') >= Len(barbers)) =>
            TotalServed(barbers') - TotalServed(barbers)
              = Len(servedCustomers') - Len(servedCustomers)
      ]_vars

\* C37: in every state 1 <= numBarbers <= Len(barbers) <= MaxBarbers.  The
\* pool becomes larger than numBarbers only in a SetBarberCount step that
\* asks for fewer barbers than the pool has sleeping ones to give, and a
\* time step never changes the size of the pool.
C37_PoolWithinBounds ==
    [][/\ MinBarbers <= numBarbers'
       /\ numBarbers' <= Len(barbers')
       /\ Len(barbers') <= MaxBarbers
       /\ (Len(barbers') > numBarbers' /\ Len(barbers) = numBarbers) =>
            /\ lastOp'.op = "SetBarberCount"
            /\ numBarbers' < numBarbers
            /\ Cardinality(SleepingPositions(barbers)) < numBarbers - numBarbers'
            /\ WorkingPositions(barbers') # {}
       /\ lastOp'.op \in {"Advance", "AdvanceIdle", "ServiceComplete"} =>
            Len(barbers') = Len(barbers)
      ]_vars

\* a decrease from 2 to 1 was asked while both barbers were working: the
\* pool still has two barbers after a later time step
C37_Witness ==
    /\ lastOp.op = "Advance"
    /\ numBarbers = 1
    /\ Len(barbers) = 2
    /\ Len(servedCustomers) > 0

MinOf2(a, b) == IF a < b THEN a ELSE b

\* C38: a Start Haircuts step taken with s sleeping barbers and q waiting
\* customers moves the first min(s, q) customers of the queue into service,
\* the j-th of them to the j-th sleeping barber in ascending order with
\* timeServed = currentTime, leaves the other barbers as they were, and
\* shortens the queue by min(s, q).
C38_StartHaircutsAssigns ==
    [][lastOp'.op = "StartHaircuts" =>
         LET sl == SortedSeq(SleepingPositions(barbers))
             m == MinOf2(Len(sl), Len(waitingCustomers))
             n == Len(currentCustomers)
         IN /\ Len(waitingCustomers') = Len(waitingCustomers) - m
            /\ Len(currentCustomers') = n + m
            /\ \A j \in 1..m :
                 /\ currentCustomers'[n + j].id = waitingCustomers[j].id
                 /\ currentCustomers'[n + j].servedBy = sl[j]
                 /\ currentCustomers'[n + j].timeServed = currentTime
                 /\ barbers'[sl[j]].state = WORKING
                 /\ barbers'[sl[j]].servingCustomerId = waitingCustomers[j].id
            /\ \A i \in 1..Len(barbers) :
                 (\A j \in 1..m : sl[j] # i) => barbers'[i] = barbers[i]
      ]_vars

NewlyServed == {servedCustomers'[i].id :
                  i \in (Len(servedCustomers) + 1)..Len(servedCustomers')}

\* C39: with time steps and progress-bar callbacks interleaved with the
\* other commands, no customer occurs twice in servedCustomers; a step adds
\* at most one to the barbers' totalCustomersServed for each customer it
\* serves; and a callback puts to sleep or hands on only a barber whose
\* customer it has just served.
C39_CompletedOnce ==
    [][/\ \A id \in Ids(servedCustomers') : Count(servedCustomers', id) <= 1
       /\ (lastOp'.op \in {"Advance", "ServiceComplete"}
             /\ Len(barbers') = Len(barbers)) =>
            TotalServed(barbers') - TotalServed(barbers)
              <= Cardinality(NewlyServed)
       /\ lastOp'.op = "ServiceComplete" =>
            \A i \in 1..Len(barbers) :
               barbers'[i] # barbers[i] =>
                  /\ barbers[i].state = WORKING
                  /\ barbers[i].servingCustomerId \in NewlyServed
      ]_vars

AbsDiff(a, b) == IF a >= b THEN a - b ELSE b - a

\* C33 (as stated): the reported average wait time times the number of
\* served customers equals the sum of their waits, and it is 0 when nobody
\* has been served.  The reported value is kept in tenths of a second.
C33_AverageIsExactMean ==
    averageWaitTime(servedCustomers) * Len(servedCustomers)
      = 10 * TotalWaitTime(servedCustomers)

\* C33 (amended): the reported average wait time is the mean of the waits
\* rounded to one decimal place: it is 0 when nobody has been served, within
\* 0.05 s of the mean otherwise, and equal to the mean when the mean has at
\* most one decimal.
C33_AverageIsRoundedMean ==
    LET n == Len(servedCustomers)
        total == TotalWaitTime(servedCustomers)
        avg == averageWaitTime(servedCustomers)
    IN /\ n = 0 => avg = 0
       /\ n > 0 => 2 * AbsDiff(avg * n, 10 * total) <= n
       /\ (n > 0 /\ (10 * total) % n = 0) => avg * n = 10 * total

\* three customers served with waits adding up to 20 s: the mean is
\* 6.666..., the reported value 6.7
C33_Witness ==
    /\ Len(servedCustomers) = 3
    /\ TotalWaitTime(servedCustomers) = 20
    /\ averageWaitTime(servedCustomers) = 67

\* the clock has reached the bound of the model: no further time step
ClockAtBound == currentTime + TimeStep(10000, simulationSpeed) > MaxTime

\* what processTimeStep would do to the services in progress at a time by
\* which all of them are due
LaterStep ==
    StepResult(barbers, currentCustomers, waitingCustomers,
               currentTime + 2 * MaxTime, serviceTime)

\* the clock stopped at the bound while a later time step would still have
\* completed the services in progress
EndsBeyondBound == ClockAtBound /\ ~LaterStep.crashed

\* the same, with a service in progress whose completion would have moved
\* the queue
QueueBeyondBound == EndsBeyondBound /\ currentCustomers # <<>>

====
